---- MODULE Spec2Model ----
(***************************************************************************)
(* Model of src/veggie-develop/gro.py: the price-string parser             *)
(* (parse_price), the scraper (scrape_vegetable_prices) and the dashboard  *)
(* (create_dashboard and its filter callback update_charts).               *)
(*                                                                         *)
(* Text is a sequence of one-character strings, so that replace, strip,    *)
(* split and float() act on characters as they do in Python.  A float is   *)
(* a record: an exact decimal n/d (d a power of ten, lowest terms in       *)
(* powers of ten), or nan, or +/-inf.                                      *)
(***************************************************************************)
EXTENDS Integers, Sequences, FiniteSets, TLC

VARIABLES
    text,      \* ParseSpec: the argument price_str of parse_price
    parsed,    \* ParseSpec: what the call returned (or raised)
    http,      \* outcome of requests.get + raise_for_status
    page,      \* the HTML document: is the table there, and its rows of td texts
    pc,        \* "call", "returned"; "start", "scraped", "serving"; "crashed"
    exc,       \* the exception that left the last operation ("none" if none)
    df,        \* the DataFrame held by create_dashboard's closure
    fetches,   \* number of HTTP GETs issued so far
    slider,    \* the RangeSlider of the layout: min, max, value, marks, step
    table,     \* the DataTable's initial data
    out,       \* what the last update_charts call got and returned
    prev       \* the same for the call before it

vars == <<text, parsed, http, page, pc, exc, df, fetches, slider, table, out, prev>>

----------------------------------------------------------------------------
(* Bounds of the model *)

\* longest exhaustively enumerated argument of parse_price
MaxLen == 4
\* most data rows (after the two header rows) of a scraped table
MaxDataRows == 4
\* most data rows of the table behind a served dashboard
MaxDashRows == 2

----------------------------------------------------------------------------
(* Characters and text *)

Rupee == "₹"
Digits == {"0", "1", "2", "3", "4", "5", "6", "7", "8", "9"}
Whitespace == {" ", "\t", "\n"}

PerKg == <<"p", "e", "r", " ", "k", "g">>

DigitVal(c) ==
    CASE c = "0" -> 0 [] c = "1" -> 1 [] c = "2" -> 2 [] c = "3" -> 3
      [] c = "4" -> 4 [] c = "5" -> 5 [] c = "6" -> 6 [] c = "7" -> 7
      [] c = "8" -> 8 [] c = "9" -> 9

\* str.lower() on the letters float() reads
Lower(c) ==
    CASE c = "I" -> "i" [] c = "N" -> "n" [] c = "F" -> "f" [] c = "T" -> "t"
      [] c = "Y" -> "y" [] c = "A" -> "a" [] c = "E" -> "e" [] OTHER -> c

LowerAll(s) == [i \in 1..Len(s) |-> Lower(s[i])]

StartsWith(s, p) == Len(s) >= Len(p) /\ SubSeq(s, 1, Len(p)) = p

\* str.replace(old, ''): the occurrences of old, left to right, not overlapping
RECURSIVE Remove(_, _)
Remove(s, old) ==
    IF Len(s) < Len(old) \/ Len(old) = 0 THEN s
    ELSE IF StartsWith(s, old) THEN Remove(SubSeq(s, Len(old) + 1, Len(s)), old)
    ELSE <<Head(s)>> \o Remove(Tail(s), old)

RECURSIVE LStrip(_)
LStrip(s) == IF s # <<>> /\ Head(s) \in Whitespace THEN LStrip(Tail(s)) ELSE s

RECURSIVE RStrip(_)
RStrip(s) ==
    IF s # <<>> /\ s[Len(s)] \in Whitespace THEN RStrip(SubSeq(s, 1, Len(s) - 1)) ELSE s

\* str.strip()
Strip(s) == RStrip(LStrip(s))

Contains(s, c) == \E i \in 1..Len(s) : s[i] = c

\* s.split(c)[0]: the text before the first c (all of s when there is none)
RECURSIVE SplitFirst(_, _)
SplitFirst(s, c) ==
    IF s = <<>> \/ Head(s) = c THEN <<>> ELSE <<Head(s)>> \o SplitFirst(Tail(s), c)

----------------------------------------------------------------------------
(* Floats *)

RECURSIVE Pow10(_)
Pow10(k) == IF k <= 0 THEN 1 ELSE 10 * Pow10(k - 1)

\* n/d with d a power of ten, without trailing zeros of n that d can absorb
RECURSIVE Num(_, _)
Num(n, d) ==
    IF d > 1 /\ n % 10 = 0 THEN Num(n \div 10, d \div 10) ELSE [k |-> "num", n |-> n, d |-> d]

NaN == [k |-> "nan", n |-> 0, d |-> 1]
Inf == [k |-> "inf", n |-> 1, d |-> 1]
NegInf == [k |-> "inf", n |-> -1, d |-> 1]
\* Python's None, and a ValueError on its way up
None == [k |-> "None", n |-> 0, d |-> 1]
ValueError == [k |-> "ValueError", n |-> 0, d |-> 1]

IsFloat(v) == v.k \in {"num", "nan", "inf"}

\* a <= b on floats: every comparison with nan is false
Leq(a, b) ==
    CASE a.k = "nan" \/ b.k = "nan" -> FALSE
      [] a.k = "inf" /\ b.k = "inf" -> a.n <= b.n
      [] a.k = "inf" -> a.n < 0
      [] b.k = "inf" -> b.n > 0
      [] OTHER -> a.n * b.d <= b.n * a.d

\* index after the digitpart (digits, single underscores between them) that
\* starts at i; i itself when no digit stands there
RECURSIVE DigitRunEnd(_, _)
DigitRunEnd(s, i) ==
    IF i > Len(s) \/ s[i] \notin Digits THEN i
    ELSE IF i + 1 <= Len(s) /\ s[i + 1] \in Digits THEN DigitRunEnd(s, i + 1)
    ELSE IF i + 2 <= Len(s) /\ s[i + 1] = "_" /\ s[i + 2] \in Digits
         THEN DigitRunEnd(s, i + 2)
    ELSE i + 1

\* the digits of s[i..j-1] read as a decimal numeral, continuing from acc
RECURSIVE DigitsValue(_, _, _, _)
DigitsValue(s, i, j, acc) ==
    IF i >= j THEN acc
    ELSE IF s[i] \in Digits THEN DigitsValue(s, i + 1, j, 10 * acc + DigitVal(s[i]))
    ELSE DigitsValue(s, i + 1, j, acc)

DigitCount(s, i, j) == Cardinality({m \in i..(j - 1) : s[m] \in Digits})

\* the value of a decimal literal: mantissa digits s[1..iEnd-1] and
\* s[fStart..fEnd-1], exponent digits s[eStart..eEnd-1]
DecimalValue(s, sign, iEnd, fStart, fEnd, eStart, eEnd, eNeg) ==
    LET mant == DigitsValue(s, fStart, fEnd, DigitsValue(s, 1, iEnd, 0))
        expo == DigitsValue(s, eStart, eEnd, 0)
        scale == (IF eNeg THEN 0 - expo ELSE expo) - DigitCount(s, fStart, fEnd)
    IN  IF scale >= 0 THEN Num(sign * mant * Pow10(scale), 1)
        ELSE Num(sign * mant, Pow10(0 - scale))

\* the literal is well formed when it has a digit before the exponent, its
\* exponent (if any) has a digit, and nothing follows
DecimalChecked(s, sign, iEnd, fStart, fEnd, hasExp, eStart, eEnd) ==
    IF (iEnd > 1 \/ fEnd > fStart) /\ (hasExp => eEnd > eStart) /\ eEnd = Len(s) + 1
    THEN DecimalValue(s, sign, iEnd, fStart, fEnd, eStart, eEnd,
                      hasExp /\ s[eStart - 1] = "-")
    ELSE ValueError

\* the exponent: e, an optional sign, a digitpart
DecimalExponent(s, sign, iEnd, fStart, fEnd) ==
    LET hasExp == fEnd <= Len(s) /\ s[fEnd] = "e"
        hasESign == hasExp /\ fEnd + 1 <= Len(s) /\ s[fEnd + 1] \in {"+", "-"}
        eStart == IF hasESign THEN fEnd + 2 ELSE fEnd + 1
    IN  DecimalChecked(s, sign, iEnd, fStart, fEnd, hasExp, eStart,
                       IF hasExp THEN DigitRunEnd(s, eStart) ELSE fEnd)

\* the fraction: a point and an optional digitpart
DecimalFraction(s, sign, iEnd) ==
    IF iEnd <= Len(s) /\ s[iEnd] = "."
    THEN DecimalExponent(s, sign, iEnd, iEnd + 1, DigitRunEnd(s, iEnd + 1))
    ELSE DecimalExponent(s, sign, iEnd, iEnd, iEnd)

\* the decimal part of float(): digitpart ["." [digitpart]] | "." digitpart,
\* then an optional exponent e[+-]digitpart; sign is +1 or -1
ParseDecimal(s, sign) == DecimalFraction(s, sign, DigitRunEnd(s, 1))

\* float() of text without blanks around it and without its sign
FloatOfBody(body, sign) ==
    IF body \in {<<"i", "n", "f">>, <<"i", "n", "f", "i", "n", "i", "t", "y">>}
    THEN (IF sign = 1 THEN Inf ELSE NegInf)
    ELSE IF body = <<"n", "a", "n">> THEN NaN
    ELSE ParseDecimal(body, sign)

FloatOfStripped(t) ==
    IF t # <<>> /\ Head(t) \in {"+", "-"}
    THEN FloatOfBody(LowerAll(Tail(t)), IF Head(t) = "-" THEN -1 ELSE 1)
    ELSE FloatOfBody(LowerAll(t), 1)

\* float(s) of a str: surrounding whitespace, a sign, then inf, infinity or
\* nan in any case, or a decimal literal; ValueError otherwise
ParseFloat(s) == FloatOfStripped(Strip(s))

----------------------------------------------------------------------------
(* parse_price *)

\* price_str.replace(glyph, '').replace('per kg', '').strip()
Cleaned(price_str) == Strip(Remove(Remove(price_str, <<Rupee>>), PerKg))

\* the text to convert: what stands before the first hyphen, if there is one
FirstNumber(stripped) ==
    IF Contains(stripped, "-") THEN SplitFirst(stripped, "-") ELSE stripped

\* the text after the first hyphen, if there is one
SecondNumber(stripped) ==
    IF Contains(stripped, "-")
    THEN SubSeq(stripped, Len(SplitFirst(stripped, "-")) + 2, Len(stripped))
    ELSE stripped

\* the body of the try block: the float, or the exception it raises
ParseBody(price_str) == ParseFloat(FirstNumber(Cleaned(price_str)))

\* except: return None
ExceptNone(r) == IF r = ValueError THEN None ELSE r

\* a parse_price whose except clause is missing: the ValueError propagates
parse_price_no_except(price_str) == ParseBody(price_str)

\* a parse_price that takes the text after the first hyphen of a range
parse_price_upper(price_str) == ExceptNone(ParseFloat(SecondNumber(Cleaned(price_str))))

\* a parse_price that drops everything but digits and points before converting
parse_price_lenient(price_str) ==
    ExceptNone(ParseFloat(SelectSeq(FirstNumber(Cleaned(price_str)),
                                    LAMBDA c : c \in Digits \cup {"."})))

parse_price(price_str) == ExceptNone(ParseBody(price_str))

----------------------------------------------------------------------------
(* Values shared by the specifications *)

Pending == [k |-> "pending", n |-> 0, d |-> 1]

NoPage == [hasTable |-> FALSE, rows |-> <<>>]
NoFrame == [columns |-> <<>>, rows |-> <<>>]
NoSlider == [min |-> None, max |-> None, value |-> <<None, None>>, marks |-> {}, step |-> 0]
NoCall == [called |-> FALSE, range |-> <<None, None>>, records |-> <<>>,
           bar |-> <<>>, hist |-> <<>>]

----------------------------------------------------------------------------
(* scrape_vegetable_prices *)

\* the exceptions of requests that derive from RequestException
RequestExceptions == {"ConnectionError", "HTTPError"}

\* requests.get(url) and response.raise_for_status()
Fetch(h) ==
    CASE h = "connection_error" -> "ConnectionError"
      [] h = "http_error" -> "HTTPError"
      [] OTHER -> "none"

Columns == <<"Vegetable", "Price Range", "Min Price">>

\* pd.DataFrame(data) of a list of dicts: no rows, no columns
DataFrame(data) ==
    IF data = <<>> THEN [columns |-> <<>>, rows |-> <<>>]
    ELSE [columns |-> Columns, rows |-> data]

\* the dict a row with three cells or more gives, its price as parsed
RowRecord(columns) ==
    [Vegetable |-> Strip(columns[2]),
     PriceRange |-> Strip(columns[3]),
     MinPrice |-> parse_price(Strip(columns[3]))]

RECURSIVE Collect(_, _)

\* the rest of the loop after a row's record: appended unless its price is None
CollectFrom(rows, data, rec) ==
    IF rec.MinPrice = ValueError THEN [exc |-> "ValueError", data |-> data]
    ELSE IF rec.MinPrice # None THEN Collect(Tail(rows), Append(data, rec))
    ELSE Collect(Tail(rows), data)

\* the loop over the rows: the list data, or the exception that ends the loop
Collect(rows, data) ==
    IF rows = <<>> THEN [exc |-> "none", data |-> data]
    ELSE IF Len(Head(rows)) >= 3 THEN CollectFrom(rows, data, RowRecord(Head(rows)))
    ELSE Collect(Tail(rows), data)

\* rows[n:]
Drop(rows, n) == SubSeq(rows, n + 1, Len(rows))

\* the try block with rows[skip:]: the list data, or the exception raised in it
ScrapeRows(h, pg, skip) ==
    IF Fetch(h) # "none" THEN [exc |-> Fetch(h), data |-> <<>>]
    ELSE IF pg.hasTable THEN Collect(Drop(pg.rows, skip), <<>>)
    ELSE [exc |-> "none", data |-> <<>>]

HeaderRowCount == 2

ScrapeBody(h, pg) == ScrapeRows(h, pg, HeaderRowCount)

\* an except clause naming the exceptions in handled: the empty DataFrame for
\* those, the exception itself for any other, the DataFrame of data for none
Except(r, handled) ==
    IF r.exc \in handled THEN [exc |-> "none", frame |-> DataFrame(<<>>)]
    ELSE IF r.exc # "none" THEN [exc |-> r.exc, frame |-> DataFrame(<<>>)]
    ELSE [exc |-> "none", frame |-> DataFrame(r.data)]

\* a scraper whose except clause names ConnectionError only
scrape_catches_connection_only(h, pg) == Except(ScrapeBody(h, pg), {"ConnectionError"})

\* a scraper that skips one header row instead of two
scrape_skips_one_row(h, pg) == Except(ScrapeRows(h, pg, 1), RequestExceptions)

\* what the caller gets: the DataFrame, or an exception the except clause
\* does not name
scrape_vegetable_prices(h, pg) == Except(ScrapeBody(h, pg), RequestExceptions)

----------------------------------------------------------------------------
(* create_dashboard and update_charts *)

\* the Series df['Min Price'] (only taken of a frame that has the column)
MinPrices(d) == [i \in 1..Len(d.rows) |-> d.rows[i].MinPrice]

HasColumn(d, c) == \E i \in 1..Len(d.columns) : d.columns[i] = c

\* Series.min() and Series.max(): nan is skipped, and is the answer when
\* nothing else is there
SeriesMin(col) ==
    LET vals == {col[i] : i \in 1..Len(col)} \ {NaN}
    IN  IF vals = {} THEN NaN ELSE CHOOSE v \in vals : \A w \in vals : Leq(v, w)

SeriesMax(col) ==
    LET vals == {col[i] : i \in 1..Len(col)} \ {NaN}
    IN  IF vals = {} THEN NaN ELSE CHOOSE v \in vals : \A w \in vals : Leq(w, v)

\* int(x) of a float that is a number, here never negative: truncation
IntOf(x) == x.n \div x.d

\* the exception int(x) raises, if any
IntError(x) ==
    CASE x.k = "nan" -> "ValueError"
      [] x.k = "inf" -> "OverflowError"
      [] OTHER -> "none"

TickEvery == 20
SliderStep == 5
HistBins == 20

\* the keys of the marks dict: range(a, b, 20)
Marks(a, b) == {i \in a..(b - 1) : (i - a) % TickEvery = 0}

\* the RangeSlider from the column's min and max, and the table
LayoutFor(d, lo, hi) ==
    IF IntError(lo) # "none"
    THEN [exc |-> IntError(lo), slider |-> NoSlider, table |-> <<>>]
    ELSE IF IntError(hi) # "none"
    THEN [exc |-> IntError(hi), slider |-> NoSlider, table |-> <<>>]
    ELSE [exc |-> "none",
          slider |-> [min |-> lo, max |-> hi, value |-> <<lo, hi>>,
                      marks |-> Marks(IntOf(lo), IntOf(hi)), step |-> SliderStep],
          table |-> d.rows]

\* building app.layout from df: the slider and the table, or the exception
Layout(d) ==
    IF ~HasColumn(d, "Min Price")
    THEN [exc |-> "KeyError", slider |-> NoSlider, table |-> <<>>]
    ELSE LayoutFor(d, SeriesMin(MinPrices(d)), SeriesMax(MinPrices(d)))

Dashboard(s, l) ==
    IF s.exc # "none"
    THEN [exc |-> s.exc, frame |-> s.frame, slider |-> NoSlider, table |-> <<>>]
    ELSE [exc |-> l.exc, frame |-> s.frame, slider |-> l.slider, table |-> l.table]

DashboardOf(s) == Dashboard(s, Layout(s.frame))

\* create_dashboard up to `return app`: the frame it scraped, and the layout
\* or the exception that ended it
create_dashboard(h, pg) == DashboardOf(scrape_vegetable_prices(h, pg))

InRange(r, price_range) ==
    Leq(price_range[1], r.MinPrice) /\ Leq(r.MinPrice, price_range[2])

\* the bar chart, the histogram and the table data of the filtered rows
Returned(rows) ==
    [exc |-> "none",
     records |-> rows,
     bar |-> [x |-> [i \in 1..Len(rows) |-> rows[i].Vegetable],
              y |-> [i \in 1..Len(rows) |-> rows[i].MinPrice],
              color |-> [i \in 1..Len(rows) |-> rows[i].MinPrice]],
     hist |-> [x |-> [i \in 1..Len(rows) |-> rows[i].MinPrice], nbins |-> HistBins]]

\* an update_charts whose lower bound is exclusive
update_charts_exclusive(d, price_range) ==
    Returned(SelectSeq(d.rows, LAMBDA r : /\ ~Leq(r.MinPrice, price_range[1])
                                          /\ InRange(r, price_range)))

\* what update_charts returns for a range, or the exception it raises
update_charts(d, price_range) ==
    IF ~HasColumn(d, "Min Price")
    THEN [exc |-> "KeyError", records |-> <<>>, bar |-> <<>>, hist |-> <<>>]
    ELSE Returned(SelectSeq(d.rows, LAMBDA r : InRange(r, price_range)))

----------------------------------------------------------------------------
(* ParseSpec: parse_price applied to one argument *)

\* the characters of the exhaustively enumerated arguments
Alphabet == {"4", "0", "5", "-", ".", " ", "x", Rupee}

Strings(n) == UNION {[1..m -> Alphabet] : m \in 0..n}

\* arguments the enumeration does not reach
T_40_50_per_kg == <<Rupee, "4", "0", "-", "5", "0", " ", "p", "e", "r", " ", "k", "g">>
T_45_per_kg == <<Rupee, "4", "5", " ", "p", "e", "r", " ", "k", "g">>
T_30_20_per_kg == <<Rupee, "3", "0", "-", "2", "0", " ", "p", "e", "r", " ", "k", "g">>
T_abc == <<"a", "b", "c">>
T_40_50_60 == <<"4", "0", "-", "5", "0", "-", "6", "0">>
T_40_abc == <<"4", "0", "-", "a", "b", "c">>
T_40x == <<"4", "0", "x">>
T_nan == <<"n", "a", "n">>
T_inf == <<"I", "n", "f">>
T_4e1 == <<"4", "e", "1">>
T_1_000 == <<"1", "_", "0", "0", "0">>
T_40_kg == <<"4", "0", " ", "k", "g">>

Fixtures ==
    {T_40_50_per_kg, T_45_per_kg, T_30_20_per_kg, T_abc, T_40_50_60, T_40_abc,
     T_40x, T_nan, T_inf, T_4e1, T_1_000, T_40_kg}

DigitChar(v) == CHOOSE c \in Digits : DigitVal(c) = v

\* str(n) of a natural number
RECURSIVE ToDigits(_)
ToDigits(n) == IF n < 10 THEN <<DigitChar(n)>> ELSE ToDigits(n \div 10) \o <<DigitChar(n % 10)>>

\* a plain numeral: whole part w, and one fraction digit f unless f = -1
Numerals == {[w |-> w, f |-> f] : w \in {0, 30, 40, 105}, f \in {-1, 5}}

NumeralText(a) == ToDigits(a.w) \o (IF a.f = -1 THEN <<>> ELSE <<".", DigitChar(a.f)>>)

NumeralValue(a) == IF a.f = -1 THEN Num(a.w, 1) ELSE Num(10 * a.w + a.f, 10)

\* the well-formed price strings: [glyph] a [- b] [ per kg], optionally with
\* blanks around the hyphen
Shapes ==
    [a : Numerals, b : Numerals, range : BOOLEAN, glyph : BOOLEAN, unit : BOOLEAN,
     blanks : BOOLEAN]

Format(p) ==
    (IF p.glyph THEN <<Rupee>> ELSE <<>>)
    \o NumeralText(p.a)
    \o (IF p.range
        THEN (IF p.blanks THEN <<" ", "-", " ">> ELSE <<"-">>) \o NumeralText(p.b)
        ELSE <<>>)
    \o (IF p.unit THEN <<" ">> \o PerKg ELSE <<>>)

WellFormed == {Format(p) : p \in Shapes}

ParseInputs == Strings(MaxLen) \cup Fixtures \cup WellFormed

ParseInit ==
    /\ text \in ParseInputs
    /\ parsed = Pending
    /\ pc = "call"
    /\ http = "ok"
    /\ page = NoPage
    /\ exc = "none"
    /\ df = NoFrame
    /\ fetches = 0
    /\ slider = NoSlider
    /\ table = <<>>
    /\ out = NoCall
    /\ prev = NoCall

Returns(r) ==
    /\ parsed' = r
    /\ exc' = IF r = ValueError THEN "ValueError" ELSE "none"
    /\ pc' = IF r = ValueError THEN "crashed" ELSE "returned"

\* the caller's view of parse_price(text): a value, or the exception
CallParsePrice ==
    /\ pc = "call"
    /\ Returns(parse_price(text))
    /\ UNCHANGED <<text, http, page, df, fetches, slider, table, out, prev>>

ParseNext == CallParsePrice

ParseSpec == ParseInit /\ [][ParseNext]_vars

----------------------------------------------------------------------------
(* Claims about parse_price, checked under ParseSpec *)

(* C5: parse_price never raises: whatever the argument, the call returns,
   and what it returns is a float or None; whenever the conversion in the
   try block fails (as for "" and "abc") it returns None. *)
C5_NeverRaises ==
    pc # "call" =>
        /\ pc = "returned" /\ exc = "none"
        /\ IsFloat(parsed) \/ parsed = None
        /\ ParseBody(text) = ValueError => parsed = None
        /\ text \in {<<>>, T_abc} => parsed = None

C5_Witness == pc = "returned" /\ text = T_abc /\ parsed = None

(* C6: a well-formed price string parses to the value of its first-written
   numeral: a single value to itself, a range a-b to a whether or not
   a <= b, with or without glyph, unit suffix and blanks. *)
C6_FirstWritten ==
    (pc = "returned" /\ text \in WellFormed) =>
        \A p \in Shapes : text = Format(p) => parsed = NumeralValue(p.a)

C6_Witness == pc = "returned" /\ text = T_30_20_per_kg /\ parsed = Num(30, 1)

Letters == {"a", "b", "c", "x", "e", "n", "f", "i", "t", "y", "p", "r", "k", "g",
            "I", "N", "F", "T", "Y", "A", "E"}

HyphenCount(s) == Cardinality({i \in 1..Len(s) : s[i] = "-"})

\* malformed as the claim has it: more than one hyphen, or a letter, in what
\* is left of the string without glyph and unit suffix
Malformed(s) ==
    LET c == Cleaned(s) IN HyphenCount(c) > 1 \/ \E i \in 1..Len(c) : c[i] \in Letters

(* C7 as stated: every malformed price string (several hyphens, embedded
   letters) parses to None, never to a number taken from part of it. *)
C7_MalformedIsNone == (pc = "returned" /\ Malformed(text)) => parsed = None

\* the characters a float literal can hold
FloatChars ==
    Digits \cup Whitespace
    \cup {".", "+", "-", "_", "e", "n", "f", "i", "t", "y", "a",
          "I", "N", "F", "T", "Y", "A", "E"}

FirstPart(s) == SplitFirst(Cleaned(s), "-")

(* C7 amended: a string whose part before the first hyphen holds a character
   that no float literal holds (a letter that is not part of an exponent or
   of inf, infinity, nan) parses to None; what follows the first hyphen is
   not looked at, so a numeral followed by a hyphen and anything at all (more
   hyphens, letters) parses to that numeral. *)
C7_FirstPartDecides ==
    pc = "returned" =>
        /\ (\E i \in 1..Len(FirstPart(text)) : FirstPart(text)[i] \notin FloatChars)
               => parsed = None
        /\ \A a \in Numerals :
               StartsWith(text, NumeralText(a) \o <<"-">>) => parsed = NumeralValue(a)

C7_Witness == pc = "returned" /\ text = T_40_abc /\ parsed = Num(40, 1)

----------------------------------------------------------------------------
(* The documents the scraper is run on *)

HttpOutcomes == {"ok", "connection_error", "http_error"}

N_Tomato == <<"T", "o", "m", "a", "t", "o">>
N_Onion == <<"O", "n", "i", "o", "n">>
N_Peas == <<"P", "e", "a", "s">>
N_Corn == <<"C", "o", "r", "n">>
N_Beet == <<"B", "e", "e", "t">>
N_Kale == <<"K", "a", "l", "e">>

\* the td texts of a row, as the page has them (a cell's text often comes
\* with blanks and line breaks around it)
RowPadded == <<<<"1">>, <<"\n", " ">> \o N_Tomato \o <<" ">>, <<" ">> \o T_30_20_per_kg \o <<"\n">>>>
RowPlain == <<<<"2">>, N_Onion, <<"4", "5">>>>
RowBadPrice == <<<<"3">>, N_Peas, T_abc>>
RowTwoCells == <<<<"4">>, N_Corn>>
\* an empty name cell, and a fourth cell
RowNoName == <<<<"5">>, <<>>, <<"4", "0", ".", "5">>, <<"x">>>>
RowNan == <<<<"6">>, N_Beet, T_nan>>
RowInf == <<<<"7">>, N_Kale, T_inf>>
\* a header row of th cells has no td
RowOfTh == <<>>

DataRows == {RowPadded, RowPlain, RowBadPrice, RowTwoCells, RowNoName, RowNan, RowInf}
HeaderRows == {RowOfTh, RowPlain}

SeqsUpTo(S, n) == UNION {[1..m -> S] : m \in 0..n}

\* tables of at most n data rows after the two header rows, tables with
\* fewer than two rows, and the page without the table
Pages(n) ==
    {NoPage}
    \cup {[hasTable |-> TRUE, rows |-> r] : r \in SeqsUpTo(HeaderRows, 1)}
    \cup {[hasTable |-> TRUE, rows |-> h \o r] :
              h \in [1..2 -> HeaderRows], r \in SeqsUpTo(DataRows, n)}

StartWith(n) ==
    /\ http \in HttpOutcomes
    /\ page \in (IF http = "ok" THEN Pages(n) ELSE {NoPage})
    /\ pc = "start"
    /\ text = <<>>
    /\ parsed = Pending
    /\ exc = "none"
    /\ df = NoFrame
    /\ fetches = 0
    /\ slider = NoSlider
    /\ table = <<>>
    /\ out = NoCall
    /\ prev = NoCall

----------------------------------------------------------------------------
(* ScrapeSpec: one call of scrape_vegetable_prices *)

ScrapeInit == StartWith(MaxDataRows)

Scraped(r) ==
    /\ df' = r.frame
    /\ exc' = r.exc
    /\ pc' = IF r.exc = "none" THEN "scraped" ELSE "crashed"

Scrape ==
    /\ pc = "start"
    /\ Scraped(scrape_vegetable_prices(http, page))
    /\ fetches' = fetches + 1
    /\ UNCHANGED <<text, parsed, http, page, slider, table, out, prev>>

ScrapeNext == Scrape

ScrapeSpec == ScrapeInit /\ [][ScrapeNext]_vars

----------------------------------------------------------------------------
(* Spec: the process: create_dashboard, then the server's filter callbacks *)

Levels == {Num(30, 1), Num(40, 1), Num(45, 1)}

\* the ranges a filter-change event may carry, besides the slider's default
Ranges == {r \in Levels \X Levels : Leq(r[1], r[2])}

Init == StartWith(MaxDashRows)

Started(r) ==
    /\ df' = r.frame
    /\ exc' = r.exc
    /\ slider' = r.slider
    /\ table' = r.table
    /\ pc' = IF r.exc = "none" THEN "serving" ELSE "crashed"

\* app = create_dashboard(); an exception ends the process
Startup ==
    /\ pc = "start"
    /\ Started(create_dashboard(http, page))
    /\ fetches' = fetches + 1
    /\ UNCHANGED <<text, parsed, http, page, out, prev>>

Answered(price_range, r) ==
    /\ out' = [called |-> TRUE, range |-> price_range, records |-> r.records,
               bar |-> r.bar, hist |-> r.hist]
    /\ exc' = r.exc
    /\ prev' = out

\* an update_charts that rebinds df to the filtered frame
UpdateCharts_Rebinds(price_range) ==
    /\ pc = "serving"
    /\ Answered(price_range, update_charts(df, price_range))
    /\ df' = [df EXCEPT !.rows = SelectSeq(df.rows, LAMBDA r : InRange(r, price_range))]
    /\ UNCHANGED <<text, parsed, http, page, pc, fetches, slider, table>>

\* a filter-change event: the callback update_charts(price_range)
UpdateCharts(price_range) ==
    /\ pc = "serving"
    /\ Answered(price_range, update_charts(df, price_range))
    /\ UNCHANGED <<text, parsed, http, page, pc, df, fetches, slider, table>>

Next ==
    \/ Startup
    \/ \E price_range \in Ranges \cup {slider.value} : UpdateCharts(price_range)

Spec == Init /\ [][Next]_vars

----------------------------------------------------------------------------
(* Claims about scrape_vegetable_prices, checked under ScrapeSpec *)

\* rows[i] is a data row with a price cell (the third), i counted from 1
PricedRow(rows, i) == i > HeaderRowCount /\ Len(rows[i]) >= 3

(* C1: scrape_vegetable_prices never raises, and returns the empty DataFrame
   when the GET fails (connection error or error status), when the page has
   no such table, and when no data row has a price that parses. *)
C1_EmptyNeverRaises ==
    pc # "start" =>
        /\ pc = "scraped" /\ exc = "none"
        /\ (\/ http # "ok"
            \/ ~page.hasTable
            \/ \A i \in 1..Len(page.rows) :
                   PricedRow(page.rows, i) => parse_price(page.rows[i][3]) = None)
               => df = [columns |-> <<>>, rows |-> <<>>]

C1_Witness ==
    /\ pc = "scraped" /\ http = "ok" /\ page.hasTable
    /\ Len(page.rows) > HeaderRowCount + 1
    /\ \A i \in 1..Len(page.rows) : i > HeaderRowCount => page.rows[i] = RowBadPrice
    /\ df.rows = <<>>

\* the indices of the rows that give a record, in table order
Qualifying(rows) ==
    SelectSeq([i \in 1..Len(rows) |-> i],
              LAMBDA i : PricedRow(rows, i) /\ parse_price(rows[i][3]) # None)

TrimmedRecords(rows, q) ==
    [j \in 1..Len(q) |-> [Vegetable |-> Strip(rows[q[j]][2]),
                          PriceRange |-> Strip(rows[q[j]][3]),
                          MinPrice |-> parse_price(rows[q[j]][3])]]

RawRecords(rows, q) ==
    [j \in 1..Len(q) |-> [Vegetable |-> rows[q[j]][2],
                          PriceRange |-> rows[q[j]][3],
                          MinPrice |-> parse_price(rows[q[j]][3])]]

(* C8 as stated: after a successful fetch with the table present the Dataset
   holds, in table order, one record per row after the first two that has
   three cells or more and a parseable third cell, with name = the second
   cell's text, rawRange = the third cell's text, minPrice = parse_price of
   it, and never a null minPrice. *)
C8_RecordsOfCellText ==
    (pc = "scraped" /\ http = "ok" /\ page.hasTable) =>
        /\ df.rows = RawRecords(page.rows, Qualifying(page.rows))
        /\ \A j \in 1..Len(df.rows) : df.rows[j].MinPrice # None

(* C8 amended: the same, with name and rawRange the cell texts trimmed of the
   whitespace around them. *)
C8_RecordsOfTrimmedText ==
    (pc = "scraped" /\ http = "ok" /\ page.hasTable) =>
        /\ df.rows = TrimmedRecords(page.rows, Qualifying(page.rows))
        /\ \A j \in 1..Len(df.rows) : df.rows[j].MinPrice # None

\* three valid rows and a malformed one give three records
C8_Witness ==
    /\ pc = "scraped" /\ http = "ok" /\ page.hasTable
    /\ Len(page.rows) = HeaderRowCount + 4
    /\ Cardinality({i \in 1..Len(page.rows) :
                        i > HeaderRowCount /\ page.rows[i] = RowBadPrice}) = 1
    /\ \E i \in 1..Len(page.rows) : i > HeaderRowCount /\ page.rows[i] = RowPadded
    /\ Len(df.rows) = 3

(* C9: every stored record has a non-empty name: a row whose name cell is
   empty or blank gives no record. *)
C9_NameNotEmpty ==
    pc = "scraped" => \A j \in 1..Len(df.rows) : df.rows[j].Vegetable # <<>>

----------------------------------------------------------------------------
(* Claims about the dashboard, checked under Spec *)

(* C2: with an empty Dataset, create_dashboard and the callbacks after it do
   not raise: the process serves a dashboard without data. *)
C2_EmptyDatasetServes ==
    (pc # "start" /\ df.rows = <<>>) => (pc = "serving" /\ exc = "none")

Count(seq, r) == Cardinality({i \in 1..Len(seq) : seq[i] = r})

Within(r, price_range) ==
    Leq(price_range[1], r.MinPrice) /\ Leq(r.MinPrice, price_range[2])

(* C3: for a range [lo, hi] with lo <= hi, update_charts returns exactly the
   records of the Dataset with lo <= minPrice <= hi, both ends included: each
   of those as often as the Dataset has it, and no other record. *)
C3_FilterExact ==
    (pc = "serving" /\ out.called /\ Leq(out.range[1], out.range[2])) =>
        \A r \in {df.rows[i] : i \in 1..Len(df.rows)}
                 \cup {out.records[i] : i \in 1..Len(out.records)} :
            Count(out.records, r) = IF Within(r, out.range) THEN Count(df.rows, r) ELSE 0

\* a record on a bound was returned, another record was left out
C3_Witness ==
    /\ pc = "serving" /\ out.called
    /\ \E i \in 1..Len(out.records) :
           out.records[i].MinPrice \in {out.range[1], out.range[2]}
    /\ \E i \in 1..Len(df.rows) : df.rows[i].MinPrice.k = "num" /\ Count(out.records, df.rows[i]) = 0

(* C4: filtering a non-empty Dataset with the slider's default range,
   [min minPrice, max minPrice], returns all its records in their order. *)
C4_DefaultShowsAll ==
    (pc = "serving" /\ out.called /\ out.range = slider.value) => out.records = df.rows

(* C10: while the dashboard serves, the Dataset is the one the single
   startup scrape built: no filter-change event changes it or fetches again,
   and a range asked twice in a row gets the same records. *)
C10_DatasetFixed ==
    pc = "serving" =>
        /\ fetches = 1
        /\ df = scrape_vegetable_prices(http, page).frame
        /\ (out.called /\ prev.called /\ out.range = prev.range)
               => out.records = prev.records

C10_Witness ==
    /\ pc = "serving" /\ out.called /\ prev.called /\ fetches = 1
    /\ out.range = prev.range
    /\ out.records # <<>>
    /\ Len(out.records) < Len(df.rows)

====
